---- MODULE Spec2Model ----
(***************************************************************************)
(* A model of the VBB transport.rest client (package vbb).                 *)
(*                                                                         *)
(* Two generations of the package are modelled side by side:               *)
(*   generation "A": src/vbb.go (BaseURL v5), flat wire shapes;            *)
(*   generation "B": src/unnamed/part_000 lines 108-392 (BaseURL v6),      *)
(*                   enveloped departures/arrivals, nested coordinates.    *)
(* The variable gen says which of the two a program is linked against.     *)
(*                                                                         *)
(* The JSON library, the URL library and the HTTP transport are not part   *)
(* of the package; they are modelled by what the package relies on:        *)
(* Decoder.Decode reads the first JSON value of the stream and reports a   *)
(* syntax error or a type mismatch, Client.Do reports a transport error    *)
(* or delivers a response whatever its status.                             *)
(***************************************************************************)
EXTENDS Integers, Sequences, FiniteSets, TLC

VARIABLES
    gen,      \* generation of the package in use: "A" or "B"
    client,   \* the Client value New returned: [endpoint, c]
    pc,       \* pc[p]: where caller p is: "idle", "waiting" (inside Do), "done"
    call,     \* call[p]: the operation caller p invoked and its arguments
    req,      \* req[p]: the request handed to the transport, or NoRequest
    resp,     \* resp[p]: what the transport delivered, or NoResponse
    ret,      \* ret[p]: what the operation returned: [res, err]
    doCalls,  \* doCalls[p]: how many times caller p's invocation called Do
    closes,   \* closes[p]: how many times the response body was closed
    fpc,      \* position of the pure-function harness
    fin,      \* input of the pure function under check
    fout      \* its output

vars == <<gen, client, pc, call, req, resp, ret, doCalls, closes, fpc, fin, fout>>

callVars == <<gen, client, pc, call, req, resp, ret, doCalls, closes>>

funVars == <<fpc, fin, fout>>

(***************************************************************************)
(* Bounds of the model.                                                    *)
(***************************************************************************)
NumCallers == 2

MaxRecords == 2

Callers == 1..NumCallers

(***************************************************************************)
(* uint8 arithmetic                                                        *)
(***************************************************************************)
RECURSIVE Shl(_, _)
Shl(x, n) ==
    IF n = 0 THEN x ELSE Shl((2 * x) % 256, n - 1)

RECURSIVE BitAnd(_, _)
BitAnd(a, b) ==
    IF a = 0 \/ b = 0 THEN 0
    ELSE 2 * BitAnd(a \div 2, b \div 2) + (IF a % 2 = 1 /\ b % 2 = 1 THEN 1 ELSE 0)

RECURSIVE BitOr(_, _)
BitOr(a, b) ==
    IF a = 0 THEN b
    ELSE IF b = 0 THEN a
    ELSE 2 * BitOr(a \div 2, b \div 2) + (IF a % 2 = 1 \/ b % 2 = 1 THEN 1 ELSE 0)

(***************************************************************************)
(* TransportationType: const block "1<<iota + 1", iota = 0..6.  In Go the  *)
(* shift binds tighter than the addition: the value is (1 << iota) + 1.    *)
(***************************************************************************)
TransportationTypeConst(iota) ==
    (Shl(1, iota) + 1) % 256

SuburbanTrain == TransportationTypeConst(0)

Subway == TransportationTypeConst(1)

Tram == TransportationTypeConst(2)

Bus == TransportationTypeConst(3)

Ferry == TransportationTypeConst(4)

ExpressTrain == TransportationTypeConst(5)

RegionalTrain == TransportationTypeConst(6)

UrbanTransport ==
    BitOr(SuburbanTrain, BitOr(Subway, BitOr(Tram, BitOr(Bus, BitOr(Ferry, RegionalTrain)))))

AllTransport == BitOr(UrbanTransport, ExpressTrain)

\* strconv.FormatBool
FormatBool(b) == IF b THEN "true" ELSE "false"

\* the seven query keys and the mode constant each is computed from
ModeOf ==
    [suburban |-> SuburbanTrain, subway |-> Subway, tram |-> Tram, bus |-> Bus,
     ferry |-> Ferry, express |-> ExpressTrain, regional |-> RegionalTrain]

ModeKeys == DOMAIN ModeOf

\* url.Values.Set: q with key k set to v
Set(q, k, v) ==
    [x \in DOMAIN q \cup {k} |-> IF x = k THEN v ELSE q[x]]

EmptyValues == [x \in {} |-> ""]

\* generation B: addTransportTypeParams(q, transportTypes)
addTransportTypeParams(q, transportTypes) ==
    LET q1 == Set(q, "suburban", FormatBool(BitAnd(transportTypes, SuburbanTrain) # 0))
        q2 == Set(q1, "subway", FormatBool(BitAnd(transportTypes, Subway) # 0))
        q3 == Set(q2, "tram", FormatBool(BitAnd(transportTypes, Tram) # 0))
        q4 == Set(q3, "bus", FormatBool(BitAnd(transportTypes, Bus) # 0))
        q5 == Set(q4, "ferry", FormatBool(BitAnd(transportTypes, Ferry) # 0))
        q6 == Set(q5, "express", FormatBool(BitAnd(transportTypes, ExpressTrain) # 0))
    IN  Set(q6, "regional", FormatBool(BitAnd(transportTypes, RegionalTrain) # 0))

(***************************************************************************)
(* JSON documents, as encoding/json sees them.  A value is a tagged        *)
(* record; an object's members are a function from the key, in the lower   *)
(* case the wire uses, to the member's value (encoding/json matches keys   *)
(* to field names without regard to case).                                 *)
(***************************************************************************)
JNull == [t |-> "null"]

JBool(b) == [t |-> "bool", b |-> b]

JNum(n) == [t |-> "num", n |-> n]

JStr(s) == [t |-> "str", s |-> s]

JArr(items) == [t |-> "arr", items |-> items]

JObj(members) == [t |-> "obj", members |-> members]

\* what the stream holds where a JSON value should start, when it is none
Malformed == [t |-> "malformed"]

\* A response body: the first value of the stream (or Malformed), and
\* whether bytes other than white space follow it.
Body(first, trailing) == [first |-> first, trailing |-> trailing]

\* the whole body is one JSON document
IsJSONDocument(body) ==
    body.first.t # "malformed" /\ ~body.trailing

\* Keys as json.Marshal writes them for untagged fields (the Go field names)
\* and the folded form under which the decoder matches them.
FoldTable ==
    [Type |-> "type", ID |-> "id", Name |-> "name", Address |-> "address",
     Location |-> "location", Latitude |-> "latitude", Longitude |-> "longitude",
     POI |-> "poi"]

Fold(k) ==
    IF k \in DOMAIN FoldTable THEN FoldTable[k] ELSE k

\* The member of object o a field named k (folded) is decoded from.  An
\* absent member decodes like null: the field keeps its zero value.
Member(o, k) ==
    IF o.t # "obj" THEN JNull
    ELSE LET ks == {x \in DOMAIN o.members : Fold(x) = k}
         IN  IF ks = {} THEN JNull ELSE o.members[CHOOSE x \in ks : TRUE]

Ok(val) == [err |-> "none", val |-> val]

Fail(kind, zero) == [err |-> kind, val |-> zero]

\* first error of a sequence of decoding results, "none" when there is none
RECURSIVE FirstErr(_)
FirstErr(rs) ==
    IF rs = <<>> THEN "none"
    ELSE IF Head(rs).err # "none" THEN Head(rs).err
    ELSE FirstErr(Tail(rs))

\* Unmarshal into a Go string
DecString(j) ==
    CASE j.t = "str" -> Ok(j.s)
      [] j.t = "null" -> Ok("")
      [] OTHER -> Fail("type", "")

\* Unmarshal into a Go int or float64
DecNumber(j) ==
    CASE j.t = "num" -> Ok(j.n)
      [] j.t = "null" -> Ok(0)
      [] OTHER -> Fail("type", 0)

\* Unmarshal into a Go bool
DecBool(j) ==
    CASE j.t = "bool" -> Ok(j.b)
      [] j.t = "null" -> Ok(FALSE)
      [] OTHER -> Fail("type", FALSE)

\* time.Time's zero value, and the timestamps time.Time.UnmarshalJSON parses
ZeroTime == "0001-01-01T00:00:00Z"

WellFormedTimes == {"2024-05-01T10:00:00+02:00", "2024-05-01T10:01:00+02:00"}

\* Unmarshal into a time.Time (RFC 3339 inside a JSON string; null is a no-op)
DecTime(j) ==
    CASE j.t = "null" -> Ok(ZeroTime)
      [] j.t = "str" /\ j.s \in WellFormedTimes -> Ok(j.s)
      [] OTHER -> Fail("time", ZeroTime)

(***************************************************************************)
(* float64: a finite value (the model keeps the integral ones: Fin(n) is   *)
(* the float64 n.0), NaN, or an infinity.                                  *)
(***************************************************************************)
Fin(n) == [fl |-> "finite", n |-> n]

NaN == [fl |-> "NaN"]

PosInf == [fl |-> "+Inf"]

\* Go's == on float64: NaN equals nothing, itself included
FloatEq(a, b) ==
    a.fl # "NaN" /\ b.fl # "NaN" /\ a = b

\* Unmarshal into a float64
DecFloat(j) ==
    CASE j.t = "num" -> Ok(Fin(j.n))
      [] j.t = "null" -> Ok(Fin(0))
      [] OTHER -> Fail("type", Fin(0))

(***************************************************************************)
(* Line and Departure                                                      *)
(***************************************************************************)
ZeroLine == [Name |-> "", Product |-> ""]

\* Unmarshal into a Line
DecLine(j) ==
    IF j.t = "null" THEN Ok(ZeroLine)
    ELSE IF j.t # "obj" THEN Fail("type", ZeroLine)
    ELSE LET name == DecString(Member(j, "name"))
             product == DecString(Member(j, "product"))
         IN  [err |-> FirstErr(<<name, product>>),
              val |-> [Name |-> name.val, Product |-> product.val]]

\* Platform and PlannedPlatform: int in generation A, string in generation B
DecPlatform(g, j) ==
    IF g = "A" THEN DecNumber(j) ELSE DecString(j)

ZeroDeparture(g) ==
    [Direction |-> "", When |-> ZeroTime, PlannedWhen |-> ZeroTime, Delay |-> 0,
     Platform |-> DecPlatform(g, JNull).val, PlannedPlatform |-> DecPlatform(g, JNull).val,
     Line |-> ZeroLine]

\* Unmarshal into a Departure
DecDeparture(g, j) ==
    IF j.t = "null" THEN Ok(ZeroDeparture(g))
    ELSE IF j.t # "obj" THEN Fail("type", ZeroDeparture(g))
    ELSE LET direction == DecString(Member(j, "direction"))
             when == DecTime(Member(j, "when"))
             plannedWhen == DecTime(Member(j, "plannedwhen"))
             delay == DecNumber(Member(j, "delay"))
             platform == DecPlatform(g, Member(j, "platform"))
             plannedPlatform == DecPlatform(g, Member(j, "plannedplatform"))
             line == DecLine(Member(j, "line"))
         IN  [err |-> FirstErr(<<direction, when, plannedWhen, delay, platform,
                                 plannedPlatform, line>>),
              val |-> [Direction |-> direction.val, When |-> when.val,
                       PlannedWhen |-> plannedWhen.val, Delay |-> delay.val,
                       Platform |-> platform.val,
                       PlannedPlatform |-> plannedPlatform.val, Line |-> line.val]]

\* Unmarshal into the element type of generation B's Arrivals:
\* struct { Departure; Provenance string }
DecArrival(g, j) ==
    IF j.t = "null" THEN Ok([Departure |-> ZeroDeparture(g), Provenance |-> ""])
    ELSE IF j.t # "obj" THEN Fail("type", [Departure |-> ZeroDeparture(g), Provenance |-> ""])
    ELSE LET departure == DecDeparture(g, j)
             provenance == DecString(Member(j, "provenance"))
         IN  [err |-> FirstErr(<<departure, provenance>>),
              val |-> [Departure |-> departure.val, Provenance |-> provenance.val]]

\* A slice is a record: isNil tells a nil slice from an empty one.
NilSlice == [isNil |-> TRUE, items |-> <<>>]

Slice(items) == [isNil |-> FALSE, items |-> items]


(***************************************************************************)
(* Location                                                                *)
(***************************************************************************)
\* generation A: Location has four string fields and no custom decoding
ZeroLocationA == [Type |-> "", ID |-> "", Name |-> "", Address |-> ""]

DecLocationA(j) ==
    IF j.t = "null" THEN Ok(ZeroLocationA)
    ELSE IF j.t # "obj" THEN Fail("type", ZeroLocationA)
    ELSE LET type == DecString(Member(j, "type"))
             id == DecString(Member(j, "id"))
             name == DecString(Member(j, "name"))
             address == DecString(Member(j, "address"))
         IN  [err |-> FirstErr(<<type, id, name, address>>),
              val |-> [Type |-> type.val, ID |-> id.val, Name |-> name.val,
                       Address |-> address.val]]

\* generation B: Location
ZeroLocation ==
    [Type |-> "", ID |-> "", Name |-> "", Address |-> "",
     Latitude |-> Fin(0), Longitude |-> Fin(0), Distance |-> 0]

\* hafasLocation.Location: a pointer to struct { Type; Latitude, Longitude }
NilCoord == [isNil |-> TRUE]

Coord(type, lat, lng) ==
    [isNil |-> FALSE, Type |-> type, Latitude |-> lat, Longitude |-> lng]

DecCoord(j) ==
    IF j.t = "null" THEN Ok(NilCoord)
    ELSE IF j.t # "obj" THEN Fail("type", NilCoord)
    ELSE LET type == DecString(Member(j, "type"))
             lat == DecFloat(Member(j, "latitude"))
             lng == DecFloat(Member(j, "longitude"))
         IN  [err |-> FirstErr(<<type, lat, lng>>),
              val |-> Coord(type.val, lat.val, lng.val)]

ZeroHafasLocation ==
    [Type |-> "", ID |-> "", Name |-> "", Address |-> "", Location |-> NilCoord,
     Latitude |-> Fin(0), Longitude |-> Fin(0), POI |-> FALSE]

\* json.Unmarshal(data, &hLoc)
DecHafasLocation(j) ==
    IF j.t = "null" THEN Ok(ZeroHafasLocation)
    ELSE IF j.t # "obj" THEN Fail("type", ZeroHafasLocation)
    ELSE LET type == DecString(Member(j, "type"))
             id == DecString(Member(j, "id"))
             name == DecString(Member(j, "name"))
             address == DecString(Member(j, "address"))
             location == DecCoord(Member(j, "location"))
             lat == DecFloat(Member(j, "latitude"))
             lng == DecFloat(Member(j, "longitude"))
             poi == DecBool(Member(j, "poi"))
         IN  [err |-> FirstErr(<<type, id, name, address, location, lat, lng, poi>>),
              val |-> [Type |-> type.val, ID |-> id.val, Name |-> name.val,
                       Address |-> address.val, Location |-> location.val,
                       Latitude |-> lat.val, Longitude |-> lng.val, POI |-> poi.val]]

\* UnmarshalJSON without the copy from the nested coordinate object
LocationOfTopLevelOnly(h) ==
    IF h.err # "none" THEN Fail(h.err, ZeroLocation)
    ELSE Ok([Type |-> h.val.Type, ID |-> h.val.ID, Name |-> h.val.Name,
             Address |-> h.val.Address, Latitude |-> h.val.Latitude,
             Longitude |-> h.val.Longitude, Distance |-> 0])

UnmarshalJSONTopLevelOnly(data) ==
    LocationOfTopLevelOnly(DecHafasLocation(data))

\* Location.UnmarshalJSON after json.Unmarshal(data, &hLoc) gave h: the
\* error, or the Location built from hLoc, its coordinates taken from the
\* nested object when there is one
LocationOf(h) ==
    IF h.err # "none" THEN Fail(h.err, ZeroLocation)
    ELSE IF ~h.val.Location.isNil
    THEN Ok([Type |-> h.val.Type, ID |-> h.val.ID, Name |-> h.val.Name,
             Address |-> h.val.Address, Latitude |-> h.val.Location.Latitude,
             Longitude |-> h.val.Location.Longitude, Distance |-> 0])
    ELSE Ok([Type |-> h.val.Type, ID |-> h.val.ID, Name |-> h.val.Name,
             Address |-> h.val.Address, Latitude |-> h.val.Latitude,
             Longitude |-> h.val.Longitude, Distance |-> 0])

\* Location.UnmarshalJSON(data)
UnmarshalJSON(data) ==
    LocationOf(DecHafasLocation(data))

\* Strings that are not valid UTF-8, and what json.Marshal writes for them
\* (each invalid byte becomes U+FFFD).
InvalidUTF8 ==
    ("Ostkreuz\\xFF" :> "Ostkreuz\\uFFFD")

EncString(s) ==
    JStr(IF s \in DOMAIN InvalidUTF8 THEN InvalidUTF8[s] ELSE s)

EmptyMembers == [x \in {} |-> JNull]

\* a member tagged omitempty
OmitEmpty(k, isEmpty, j) ==
    IF isEmpty THEN EmptyMembers ELSE (k :> j)

\* json.Marshal of hafasLocation.Location
EncCoord(c) ==
    JObj([Type |-> EncString(c.Type), Latitude |-> JNum(c.Latitude.n),
          Longitude |-> JNum(c.Longitude.n)])

\* the float64 values json.Marshal meets in an hafasLocation
FloatsToEncode(h) ==
    {f \in {h.Latitude, h.Longitude} : f # Fin(0)}
        \cup (IF h.Location.isNil THEN {} ELSE {h.Location.Latitude, h.Location.Longitude})

\* json.Marshal(hLoc): fails on a NaN or an infinity
MarshalHafasLocation(h) ==
    IF \E f \in FloatsToEncode(h) : f.fl # "finite"
    THEN Fail("unsupported value", JNull)
    ELSE Ok(JObj(
            [Type |-> EncString(h.Type), ID |-> EncString(h.ID), Name |-> EncString(h.Name)]
            @@ OmitEmpty("Address", h.Address = "", EncString(h.Address))
            @@ OmitEmpty("Location", h.Location.isNil, EncCoord(h.Location))
            @@ OmitEmpty("Latitude", h.Latitude = Fin(0), JNum(h.Latitude.n))
            @@ OmitEmpty("Longitude", h.Longitude = Fin(0), JNum(h.Longitude.n))
            @@ OmitEmpty("POI", ~h.POI, JBool(h.POI))))

\* Location.MarshalJSON()
MarshalJSON(loc) ==
    LET hLoc == [Type |-> loc.Type, ID |-> loc.ID, Name |-> loc.Name,
                 Address |-> loc.Address,
                 Location |-> IF loc.Type = "stop"
                              THEN Coord("location", loc.Latitude, loc.Longitude)
                              ELSE NilCoord,
                 Latitude |-> Fin(0), Longitude |-> Fin(0),
                 POI |-> loc.Type = "poi"]
    IN  MarshalHafasLocation(hLoc)

(***************************************************************************)
(* Requests                                                                *)
(***************************************************************************)
BaseURL(g) ==
    IF g = "A" THEN "https://v5.vbb.transport.rest" ELSE "https://v6.vbb.transport.rest"

\* New(endpoint, c)
New(endpoint, c) ==
    [endpoint |-> endpoint, c |-> IF c = "nil" THEN "http.DefaultClient" ELSE c]

\* LocationType: const block, LocationTypeStop = 1 << iota with iota = 1
LocationTypeConst(iota) == Shl(1, iota)

LocationTypeStop == LocationTypeConst(1)

LocationTypeAddress == LocationTypeConst(2)

LocationTypePOI == LocationTypeConst(3)

LocationTypeAny == BitOr(LocationTypeStop, BitOr(LocationTypeAddress, LocationTypePOI))

\* every key the package sets, in the order url.Values.Encode sorts them
SortedKeys ==
    <<"addresss", "bus", "distance", "duration", "express", "ferry", "fuzzy",
      "latitude", "longitude", "poi", "pretty", "query", "regional", "results",
      "stops", "suburban", "subway", "tram", "when">>

\* url.QueryEscape on the values the model passes that need escaping
EscapeTable ==
    ("2024-05-01T10:00:00+0200" :> "2024-05-01T10%3A00%3A00%2B0200")
    @@ ("2024-05-01T10:00:00+02:00" :> "2024-05-01T10%3A00%3A00%2B02%3A00")
    @@ ("2024-05-01T08:00:00+0000" :> "2024-05-01T08%3A00%3A00%2B0000")
    @@ ("2024-05-01T08:00:00Z" :> "2024-05-01T08%3A00%3A00Z")
    @@ ("S+U Alexanderplatz" :> "S%2BU+Alexanderplatz")

QueryEscape(s) ==
    IF s \in DOMAIN EscapeTable THEN EscapeTable[s] ELSE s

\* url.Values.Encode: key=value pairs sorted by key, values escaped
Encode(q) ==
    LET present == SelectSeq(SortedKeys, LAMBDA k : k \in DOMAIN q)
    IN  [i \in 1..Len(present) |-> <<present[i], QueryEscape(q[present[i]])>>]

\* strconv.Itoa
Itoa(n) == ToString(n)

\* strconv.FormatFloat(f, 'f', -1, 64)
FormatFloat(f) ==
    IF f.fl = "finite" THEN ToString(f.n) ELSE f.fl

\* A time.Time: the local date and time, and the zone offset.
\* generation B: when.Format("2006-01-02T15:04:05-0700")
FormatNumericZone(when) ==
    when.local \o when.sign \o when.hh \o when.mm

\* generation A: when.Format(time.RFC3339)
FormatRFC3339(when) ==
    IF when.hh = "00" /\ when.mm = "00" THEN when.local \o "Z"
    ELSE when.local \o when.sign \o when.hh \o ":" \o when.mm

\* A time.Duration, in seconds (not negative in the model).
\* generation B: strconv.Itoa(int(duration.Minutes())), truncation
MinutesTruncated(duration) ==
    Itoa(duration \div 60)

\* generation A: strconv.FormatFloat(duration.Minutes(), 'f', 0, 64), which
\* rounds to the nearest integer, ties to even
MinutesRounded(duration) ==
    LET m == duration \div 60
        r == duration % 60
    IN  Itoa(IF r < 30 THEN m
             ELSE IF r > 30 THEN m + 1
             ELSE IF m % 2 = 0 THEN m ELSE m + 1)

\* A request target as the operations write it: the path's segments and the
\* encoded query that follows "?", or NoQuery when no "?" is written.
NoQuery == <<"no query">>

Target(path, query) == [path |-> path, query |-> query]

\* Locations: the target it requests
LocationsTarget(g, query, locType, resultsNum) ==
    LET q1 == Set(EmptyValues, "results", Itoa(resultsNum))
        q2 == Set(q1, "query", query)
        q3 == Set(q2, "pretty", "false")
        q4 == IF g = "B" THEN Set(q3, "fuzzy", "false") ELSE q3
        q5 == Set(q4, "stops", FormatBool(BitAnd(locType, LocationTypeStop) # 0))
        q6 == Set(q5, "addresss", FormatBool(BitAnd(locType, LocationTypeAddress) # 0))
        q7 == Set(q6, "poi", FormatBool(BitAnd(locType, LocationTypePOI) # 0))
    IN  Target(<<"locations">>, Encode(q7))

\* StopsNearby: the target it requests
StopsNearbyTarget(g, lat, lng, distance, resultsNum) ==
    LET q1 == Set(EmptyValues, "results", Itoa(resultsNum))
        q2 == Set(q1, "latitude", FormatFloat(lat))
        q3 == Set(q2, "longitude", FormatFloat(lng))
        q4 == IF g = "B" THEN Set(q3, "distance", Itoa(distance)) ELSE q3
        q5 == Set(q4, "pretty", "false")
    IN  IF g = "B" THEN Target(<<"locations", "nearby">>, Encode(q5))
        ELSE Target(<<"stops", "nearby">>, Encode(q5))

\* generation A, Departures and Arrivals: the url.Values they build
\* (the seven mode parameters are set inline)
BuildQueryA(when, duration, transportTypes) ==
    LET q1 == Set(EmptyValues, "when", FormatRFC3339(when))
        q2 == Set(q1, "duration", MinutesRounded(duration))
        q3 == Set(q2, "pretty", "false")
        q4 == Set(q3, "suburban", FormatBool(BitAnd(transportTypes, SuburbanTrain) # 0))
        q5 == Set(q4, "subway", FormatBool(BitAnd(transportTypes, Subway) # 0))
        q6 == Set(q5, "tram", FormatBool(BitAnd(transportTypes, Tram) # 0))
        q7 == Set(q6, "bus", FormatBool(BitAnd(transportTypes, Bus) # 0))
        q8 == Set(q7, "ferry", FormatBool(BitAnd(transportTypes, Ferry) # 0))
        q9 == Set(q8, "express", FormatBool(BitAnd(transportTypes, ExpressTrain) # 0))
    IN  Set(q9, "regional", FormatBool(BitAnd(transportTypes, RegionalTrain) # 0))

\* generation B, Departures and Arrivals: the url.Values they build
BuildQueryB(when, duration, transportTypes) ==
    LET q0 == addTransportTypeParams(EmptyValues, transportTypes)
        q1 == Set(q0, "when", FormatNumericZone(when))
        q2 == Set(q1, "duration", MinutesTruncated(duration))
    IN  Set(q2, "pretty", "false")

\* Departures and Arrivals: the url.Values they build
BuildQuery(g, when, duration, transportTypes) ==
    IF g = "A" THEN BuildQueryA(when, duration, transportTypes)
    ELSE BuildQueryB(when, duration, transportTypes)

\* Departures and Arrivals (what is "departures" or "arrivals"): the target
\* they request.  Generation A passes the path alone to sendRequest.
StopTarget(g, what, stopID, q) ==
    IF g = "A" THEN Target(<<"stops", stopID, what>>, NoQuery)
    ELSE Target(<<"stops", stopID, what>>, Encode(q))

(***************************************************************************)
(* Responses and their decoding                                            *)
(***************************************************************************)
NilErr == [kind |-> "nil"]

\* fmt.Errorf("failed to retrieve ...: %w", err), err from sendRequest
RequestError(cause) == [kind |-> "request", cause |-> cause]

\* fmt.Errorf("failed to decode response: %w", err)
DecodeError(cause) == [kind |-> "decode", cause |-> cause]

\* Unmarshal into an element of type T of generation g's slices; a Location
\* of generation B decodes itself
DecElement(T, g, j) ==
    CASE T = "Location" -> IF g = "A" THEN DecLocationA(j) ELSE UnmarshalJSON(j)
      [] T = "Departure" -> DecDeparture(g, j)
      [] T = "Arrival" -> DecArrival(g, j)

\* the slice of the elements decoded, and the first error among them
SliceOf(rs) ==
    [err |-> FirstErr(rs), val |-> Slice([i \in 1..Len(rs) |-> rs[i].val])]

\* Unmarshal into a []T
DecSlice(T, g, j) ==
    IF j.t = "null" THEN Ok(NilSlice)
    ELSE IF j.t # "arr" THEN Fail("type", NilSlice)
    ELSE SliceOf([i \in 1..Len(j.items) |-> DecElement(T, g, j.items[i])])

\* Unmarshal into struct { <field> []T }: generation B's envelopes
DecEnvelope(field, T, g, j) ==
    IF j.t = "null" THEN Ok(NilSlice)
    ELSE IF j.t # "obj" THEN Fail("type", NilSlice)
    ELSE DecSlice(T, g, Member(j, field))

\* json.NewDecoder(data).Decode(&v), v a []T: the first value of the stream
\* is read and unmarshalled; what follows it is not looked at.
DecodeSlice(body, T, g) ==
    IF body.first.t = "malformed" THEN Fail("syntax", NilSlice)
    ELSE DecSlice(T, g, body.first)

\* json.NewDecoder(data).Decode(&res), res a struct { <field> []T }
DecodeEnvelope(body, field, T, g) ==
    IF body.first.t = "malformed" THEN Fail("syntax", NilSlice)
    ELSE DecEnvelope(field, T, g, body.first)

\* Locations and StopsNearby: decoding of the body
DecodeLocations(g, body) ==
    DecodeSlice(body, "Location", g)

\* Departures decoding the flat array whatever the generation
DecodeDeparturesFlat(g, body) ==
    DecodeSlice(body, "Departure", g)

\* Departures: decoding of the body
DecodeDepartures(g, body) ==
    IF g = "A" THEN DecodeSlice(body, "Departure", g)
    ELSE DecodeEnvelope(body, "departures", "Departure", g)

\* generation B, Arrivals: the loop over res.Arrivals.  A record whose
\* Direction is empty takes its Provenance; appending to the nil slice
\* leaves it nil when there is nothing to append.
ArrivalDirection(a) ==
    IF a.Departure.Direction = "" THEN a.Provenance ELSE a.Departure.Direction

CollectArrivals(as) ==
    IF Len(as.items) = 0 THEN NilSlice
    ELSE Slice([i \in 1..Len(as.items) |->
                  [as.items[i].Departure EXCEPT !.Direction = ArrivalDirection(as.items[i])]])

\* generation B, Arrivals: the return on a decoding error, else the loop
ArrivalsOf(res) ==
    IF res.err # "none" THEN res ELSE Ok(CollectArrivals(res.val))

\* Arrivals: decoding of the body
DecodeArrivals(g, body) ==
    IF g = "A" THEN DecodeSlice(body, "Departure", g)
    ELSE ArrivalsOf(DecodeEnvelope(body, "arrivals", "Arrival", g))

DecodeFor(g, op, body) ==
    CASE op \in {"Locations", "StopsNearby"} -> DecodeLocations(g, body)
      [] op = "Departures" -> DecodeDepartures(g, body)
      [] op = "Arrivals" -> DecodeArrivals(g, body)

(***************************************************************************)
(* The client and its callers                                              *)
(***************************************************************************)
NoCall == [op |-> "none"]

NoRequest == [sent |-> FALSE]

NoResponse == [got |-> "nothing"]

NoReturn == [returned |-> FALSE]

Return(res, err) == [returned |-> TRUE, res |-> res, err |-> err]

\* What url.Parse refuses: an endpoint with a bad escape, a path segment
\* with a control character.
BadEndpoints == {"%zz"}

BadSegments == {"900\\n"}

\* http.NewRequest(method, c.endpoint+url, nil) returns no error
CanCreateRequest(cl, target) ==
    /\ cl.endpoint \notin BadEndpoints
    /\ \A i \in 1..Len(target.path) : target.path[i] \notin BadSegments

\* sendRequest keeping the URL it built in the client's endpoint field
sendRequestStoringURL(cl, method, target) ==
    [client |-> [cl EXCEPT !.endpoint = cl.endpoint \o "/" \o target.path[1]],
     created |-> CanCreateRequest(cl, target),
     request |-> [sent |-> TRUE, method |-> method, endpoint |-> cl.endpoint,
                  path |-> target.path, query |-> target.query]]

\* sendRequest up to the call of Do: the request it creates from the
\* client's endpoint and the target, and the client it leaves behind (it
\* assigns to no field of c).
sendRequest(cl, method, target) ==
    [client |-> cl,
     created |-> CanCreateRequest(cl, target),
     request |-> [sent |-> TRUE, method |-> method, endpoint |-> cl.endpoint,
                  path |-> target.path, query |-> target.query]]

\* An operation from its entry to its call of c.c.Do, or to its return when
\* the request cannot be created.
Invoke(p, theCall, target) ==
    LET s == sendRequest(client, "GET", target)
    IN  /\ pc[p] = "idle"
        /\ call' = [call EXCEPT ![p] = theCall]
        /\ client' = s.client
        /\ IF s.created
           THEN /\ pc' = [pc EXCEPT ![p] = "waiting"]
                /\ req' = [req EXCEPT ![p] = s.request]
                /\ doCalls' = [doCalls EXCEPT ![p] = @ + 1]
                /\ ret' = ret
           ELSE /\ pc' = [pc EXCEPT ![p] = "done"]
                /\ ret' = [ret EXCEPT ![p] = Return(NilSlice, RequestError("create"))]
                /\ UNCHANGED <<req, doCalls>>
        /\ UNCHANGED <<gen, resp, closes, funVars>>

Locations(p, query, locType, resultsNum) ==
    Invoke(p, [op |-> "Locations", query |-> query, locType |-> locType,
               resultsNum |-> resultsNum],
           LocationsTarget(gen, query, locType, resultsNum))

StopsNearby(p, lat, lng, distance, resultsNum) ==
    Invoke(p, [op |-> "StopsNearby", lat |-> lat, lng |-> lng, distance |-> distance,
               resultsNum |-> resultsNum],
           StopsNearbyTarget(gen, lat, lng, distance, resultsNum))

Departures(p, stopID, when, duration, transportTypes) ==
    Invoke(p, [op |-> "Departures", stopID |-> stopID, when |-> when,
               duration |-> duration, transportTypes |-> transportTypes,
               q |-> BuildQuery(gen, when, duration, transportTypes)],
           StopTarget(gen, "departures", stopID,
                      BuildQuery(gen, when, duration, transportTypes)))

Arrivals(p, stopID, when, duration, transportTypes) ==
    Invoke(p, [op |-> "Arrivals", stopID |-> stopID, when |-> when,
               duration |-> duration, transportTypes |-> transportTypes,
               q |-> BuildQuery(gen, when, duration, transportTypes)],
           StopTarget(gen, "arrivals", stopID,
                      BuildQuery(gen, when, duration, transportTypes)))

\* c.c.Do returns an error: sendRequest wraps it, the operation wraps it
\* again and returns; there is no body to close.
DoFails(p) ==
    /\ pc[p] = "waiting"
    /\ pc' = [pc EXCEPT ![p] = "done"]
    /\ resp' = [resp EXCEPT ![p] = [got |-> "error"]]
    /\ ret' = [ret EXCEPT ![p] = Return(NilSlice, RequestError("execute"))]
    /\ UNCHANGED <<gen, client, call, req, doCalls, closes, funVars>>

\* the return of an operation whose decoding gave d
ReturnDecoded(d) ==
    IF d.err # "none" THEN Return(NilSlice, DecodeError(d.err))
    ELSE Return(d.val, NilErr)

\* What the operation returns once Do has delivered a response: the status
\* is not looked at, the body is decoded.
ReturnFor(g, op, response) ==
    ReturnDecoded(DecodeFor(g, op, response.body))

\* the body closed on the successful path only, not deferred
DoRespondsCloseOnSuccess(p, status, body) ==
    LET response == [got |-> "response", status |-> status, body |-> body]
        r == ReturnFor(gen, call[p].op, response)
    IN  /\ pc[p] = "waiting"
        /\ pc' = [pc EXCEPT ![p] = "done"]
        /\ resp' = [resp EXCEPT ![p] = response]
        /\ ret' = [ret EXCEPT ![p] = r]
        /\ closes' = [closes EXCEPT ![p] = IF r.err = NilErr THEN @ + 1 ELSE @]
        /\ UNCHANGED <<gen, client, call, req, doCalls, funVars>>

\* c.c.Do returns a response: the operation defers the body's Close,
\* decodes the body and returns; the deferred Close runs once.
DoResponds(p, status, body) ==
    LET response == [got |-> "response", status |-> status, body |-> body]
    IN  /\ pc[p] = "waiting"
        /\ pc' = [pc EXCEPT ![p] = "done"]
        /\ resp' = [resp EXCEPT ![p] = response]
        /\ ret' = [ret EXCEPT ![p] = ReturnFor(gen, call[p].op, response)]
        /\ closes' = [closes EXCEPT ![p] = @ + 1]
        /\ UNCHANGED <<gen, client, call, req, doCalls, funVars>>

(***************************************************************************)
(* Inputs: what callers pass and what the service may send                 *)
(***************************************************************************)
StopIDs == {"900000100003"} \cup BadSegments

Whens ==
    {[local |-> "2024-05-01T10:00:00", sign |-> "+", hh |-> "02", mm |-> "00"],
     [local |-> "2024-05-01T08:00:00", sign |-> "+", hh |-> "00", mm |-> "00"]}

\* ninety seconds: a minute and a half
Durations == {90}

TransportFilters == {Subway, UrbanTransport, AllTransport}

\* a stop as generation B's service sends it to /locations/nearby
WireStop ==
    JObj([type |-> JStr("stop"), id |-> JStr("900000100003"),
          name |-> JStr("S+U Alexanderplatz"),
          location |-> JObj([type |-> JStr("location"), latitude |-> JNum(52),
                             longitude |-> JNum(13)]),
          distance |-> JNum(120)])

\* a departure or arrival with a direction and a free-text platform
WireDeparture ==
    JObj([direction |-> JStr("S Potsdam Hbf"), provenance |-> JStr("S Ahrensfelde"),
          when |-> JStr("2024-05-01T10:01:00+02:00"),
          plannedwhen |-> JStr("2024-05-01T10:00:00+02:00"), delay |-> JNum(60),
          platform |-> JStr("3"), plannedplatform |-> JStr("3"),
          line |-> JObj([name |-> JStr("S7"), product |-> JStr("suburban")])])

\* an arrival as the service sends it: the direction empty, the provenance set
WireArrival ==
    JObj([direction |-> JStr(""), provenance |-> JStr("Platform 3 area"),
          when |-> JStr("2024-05-01T10:00:00+02:00"),
          plannedwhen |-> JStr("2024-05-01T10:00:00+02:00"), delay |-> JNum(0),
          platform |-> JNull, plannedplatform |-> JNull,
          line |-> JObj([name |-> JStr("U2"), product |-> JStr("subway")])])

\* a departure with a numeric platform and no provenance
WireNumericPlatform ==
    JObj([direction |-> JStr("U Ruhleben"),
          when |-> JStr("2024-05-01T10:00:00+02:00"), delay |-> JNull,
          platform |-> JNum(3), plannedplatform |-> JNum(3),
          line |-> JObj([name |-> JStr("U2"), product |-> JStr("subway")])])

WireRecords == {WireStop, WireDeparture, WireArrival, WireNumericPlatform}

SeqsUpTo(S, n) == UNION {[1..k -> S] : k \in 0..n}

\* the first value of a body
FirstValues(records, n) ==
    {Malformed, JObj([error |-> JBool(TRUE)])}
        \cup {JArr(l) : l \in SeqsUpTo(records, n)}
        \cup {JObj([departures |-> JArr(l)]) : l \in SeqsUpTo(records, n)}
        \cup {JObj([arrivals |-> JArr(l)]) : l \in SeqsUpTo(records, n)}

Bodies(records, n) ==
    {Body(first, trailing) : first \in FirstValues(records, n), trailing \in BOOLEAN}

Statuses == {200, 500}

IsSuccess(status) == status \in 200..299

(***************************************************************************)
(* Specification of one caller at a time, with every input above           *)
(***************************************************************************)
FunIdle ==
    /\ fpc = "off"
    /\ fin = [unused |-> TRUE]
    /\ fout = [unused |-> TRUE]

Init ==
    /\ gen \in {"A", "B"}
    /\ client \in {New(e, c) : e \in {BaseURL(gen)} \cup BadEndpoints, c \in {"nil", "custom"}}
    /\ pc = [p \in Callers |-> "idle"]
    /\ call = [p \in Callers |-> NoCall]
    /\ req = [p \in Callers |-> NoRequest]
    /\ resp = [p \in Callers |-> NoResponse]
    /\ ret = [p \in Callers |-> NoReturn]
    /\ doCalls = [p \in Callers |-> 0]
    /\ closes = [p \in Callers |-> 0]
    /\ FunIdle

Next ==
    \/ \E locType \in {LocationTypeStop, LocationTypeAny} :
          Locations(1, "S+U Alexanderplatz", locType, 5)
    \/ StopsNearby(1, Fin(52), Fin(13), 500, 3)
    \/ \E stopID \in StopIDs, when \in Whens, duration \in Durations,
          transportTypes \in TransportFilters :
          Departures(1, stopID, when, duration, transportTypes)
    \/ \E stopID \in StopIDs, when \in Whens, duration \in Durations,
          transportTypes \in TransportFilters :
          Arrivals(1, stopID, when, duration, transportTypes)
    \/ DoFails(1)
    \/ \E status \in Statuses, body \in Bodies(WireRecords, MaxRecords) :
          DoResponds(1, status, body)

Spec == Init /\ [][Next]_vars

(***************************************************************************)
(* Properties of the calls                                                 *)
(***************************************************************************)
\* caller p's operation has returned after Do delivered a response
Answered(p) ==
    pc[p] = "done" /\ resp[p].got = "response"

Succeeded(p) ==
    Answered(p) /\ ret[p].err = NilErr

\* C2: for each of the four operations, a response with a non-success
\* status makes the call return a request error, never a successful result,
\* whatever the body is.
NonSuccessStatusIsRequestError ==
    \A p \in Callers :
        (Answered(p) /\ ~IsSuccess(resp[p].status)) => ret[p].err.kind = "request"

\* C3: for Locations, Departures and Arrivals, a body that is not a valid
\* JSON document makes the call return a decode error and a nil result,
\* a body that starts with a JSON value and goes on with other bytes included.
NonJSONBodyIsDecodeError ==
    \A p \in Callers :
        (/\ Answered(p)
         /\ call[p].op \in {"Locations", "Departures", "Arrivals"}
         /\ ~IsJSONDocument(resp[p].body))
            => (ret[p].err.kind = "decode" /\ ret[p].res.isNil)

\* the arrival records of a response, in the order the service sent them
WireArrivals(g, body) ==
    LET list == IF g = "A" THEN body.first ELSE Member(body.first, "arrivals")
    IN  IF list.t = "arr" THEN list.items ELSE <<>>

\* the Go value a wire member carries (zero when it is null or absent)
WireValue(j, zero) ==
    CASE j.t = "str" -> j.s
      [] j.t = "num" -> j.n
      [] OTHER -> zero

\* Departure d carries wire record w in every field but Direction
SameButDirection(g, d, w) ==
    /\ d.When = WireValue(Member(w, "when"), ZeroTime)
    /\ d.PlannedWhen = WireValue(Member(w, "plannedwhen"), ZeroTime)
    /\ d.Delay = WireValue(Member(w, "delay"), 0)
    /\ d.Platform = WireValue(Member(w, "platform"), IF g = "A" THEN 0 ELSE "")
    /\ d.PlannedPlatform = WireValue(Member(w, "plannedplatform"), IF g = "A" THEN 0 ELSE "")
    /\ d.Line.Name = WireValue(Member(Member(w, "line"), "name"), "")
    /\ d.Line.Product = WireValue(Member(Member(w, "line"), "product"), "")

\* C4: Arrivals returns the arrival records of the response, as many and in
\* the same order, each equal to its wire record in every field, except that
\* Direction is the wire provenance when the wire direction is empty and
\* the wire direction when it is not.
ArrivalsMirrorWire ==
    \A p \in Callers :
        (Succeeded(p) /\ call[p].op = "Arrivals") =>
            LET wire == WireArrivals(gen, resp[p].body)
                got == ret[p].res.items
            IN  /\ Len(got) = Len(wire)
                /\ \A i \in 1..Len(wire) :
                      /\ SameButDirection(gen, got[i], wire[i])
                      /\ got[i].Direction =
                            IF WireValue(Member(wire[i], "direction"), "") = ""
                            THEN WireValue(Member(wire[i], "provenance"), "")
                            ELSE WireValue(Member(wire[i], "direction"), "")

\* the keys of an encoded query
KeysOf(query) == {query[i][1] : i \in 1..Len(query)}

\* C6: every request of Departures or Arrivals is a GET to
\* /stops/{id}/departures (resp. arrivals) whose query carries when,
\* duration, pretty=false and the seven mode parameters the call built:
\* nothing the operation builds is missing from the URL it sends.
StopRequestsCarryTheQuery ==
    \A p \in Callers :
        (req[p].sent /\ call[p].op \in {"Departures", "Arrivals"}) =>
            /\ req[p].method = "GET"
            /\ req[p].path = <<"stops", call[p].stopID,
                               IF call[p].op = "Departures" THEN "departures" ELSE "arrivals">>
            /\ req[p].query # NoQuery
            /\ ({"when", "duration", "pretty"} \cup ModeKeys) \subseteq KeysOf(req[p].query)
            /\ <<"pretty", "false">> \in {req[p].query[i] : i \in 1..Len(req[p].query)}
            /\ \A k \in DOMAIN call[p].q :
                  <<k, QueryEscape(call[p].q[k])>> \in {req[p].query[i] : i \in 1..Len(req[p].query)}

\* C7: StopsNearby, on an array of location records each carrying a walking
\* distance, returns Locations whose Distance is the distance the service
\* sent for the record.  (Stated of generation B, whose Location has the
\* Distance field.)
NearbyDistanceIsTheWireDistance ==
    \A p \in Callers :
        (/\ Succeeded(p)
         /\ gen = "B"
         /\ call[p].op = "StopsNearby"
         /\ resp[p].body.first.t = "arr"
         /\ \A i \in 1..Len(resp[p].body.first.items) :
               Member(resp[p].body.first.items[i], "distance").t = "num")
            => /\ Len(ret[p].res.items) = Len(resp[p].body.first.items)
               /\ \A i \in 1..Len(ret[p].res.items) :
                     /\ "Distance" \in DOMAIN ret[p].res.items[i]
                     /\ ret[p].res.items[i].Distance =
                           Member(resp[p].body.first.items[i], "distance").n

\* the empty results of the departures (resp. arrivals) endpoint
EmptyArray == Body(JArr(<<>>), FALSE)

EmptyEnvelope(op) ==
    IF op = "Departures" THEN Body(JObj([departures |-> JArr(<<>>)]), FALSE)
    ELSE Body(JObj([arrivals |-> JArr(<<>>)]), FALSE)

ReturnedEmpty(p) ==
    ret[p].err = NilErr /\ Len(ret[p].res.items) = 0

\* C8 as stated: Departures (and Arrivals) answered with [] or with
\* {"departures":[]} (resp. {"arrivals":[]}) return a nil error and a
\* sequence of length 0.
EitherEmptyShapeIsEmptyResult ==
    \A p \in Callers :
        (/\ Answered(p)
         /\ call[p].op \in {"Departures", "Arrivals"}
         /\ resp[p].body \in {EmptyArray, EmptyEnvelope(call[p].op)})
            => ReturnedEmpty(p)

\* the empty result in the shape the generation in use decodes
EmptyResultOf(g, op) ==
    IF g = "A" THEN EmptyArray ELSE EmptyEnvelope(op)

\* C8, amended: Departures (and Arrivals) answered with the empty result in
\* the shape of the client's generation ([] for generation A, the envelope
\* with an empty list for generation B) return a nil error and a sequence
\* of length 0.
OwnEmptyShapeIsEmptyResult ==
    \A p \in Callers :
        (/\ Answered(p)
         /\ call[p].op \in {"Departures", "Arrivals"}
         /\ resp[p].body = EmptyResultOf(gen, call[p].op))
            => ReturnedEmpty(p)

OwnEmptyShapeWitness ==
    \E p \in Callers :
        /\ Answered(p)
        /\ gen = "B"
        /\ call[p].op = "Arrivals"
        /\ resp[p].body = EmptyResultOf(gen, call[p].op)
        /\ ReturnedEmpty(p)

\* the request of caller p's call could be created
Creatable(p) ==
    /\ client.endpoint \notin BadEndpoints
    /\ call[p].op \in {"Departures", "Arrivals"} => call[p].stopID \notin BadSegments

\* C10: an invocation calls the transport at most once, exactly once when
\* the request can be created; after a transport or decode failure it does
\* not call it again and returns the failure; it closes the body exactly
\* once on every path on which the transport returned a response.
OneCyclePerInvocation ==
    \A p \in Callers :
        /\ doCalls[p] <= 1
        /\ closes[p] <= doCalls[p]
        /\ pc[p] = "waiting" => (doCalls[p] = 1 /\ closes[p] = 0 /\ ~ret[p].returned)
        /\ pc[p] = "done" =>
              /\ ret[p].returned
              /\ doCalls[p] = (IF Creatable(p) THEN 1 ELSE 0)
              /\ closes[p] = (IF resp[p].got = "response" THEN 1 ELSE 0)
              /\ resp[p].got = "error" => ret[p].err.kind = "request"
              /\ resp[p].got = "nothing" => ret[p].err.kind = "request"
              /\ (resp[p].got = "response" /\ resp[p].body.first.t = "malformed")
                    => ret[p].err.kind = "decode"
              /\ ret[p].err # NilErr => ret[p].res.isNil

OneCycleWitness ==
    \E p \in Callers :
        /\ pc[p] = "done"
        /\ resp[p].got = "response"
        /\ ret[p].err.kind = "decode"
        /\ doCalls[p] = 1
        /\ closes[p] = 1

(***************************************************************************)
(* Specification of concurrent callers of one Client                       *)
(***************************************************************************)
InitConc ==
    /\ gen \in {"A", "B"}
    /\ client = New(BaseURL(gen), "nil")
    /\ pc = [p \in Callers |-> "idle"]
    /\ call = [p \in Callers |-> NoCall]
    /\ req = [p \in Callers |-> NoRequest]
    /\ resp = [p \in Callers |-> NoResponse]
    /\ ret = [p \in Callers |-> NoReturn]
    /\ doCalls = [p \in Callers |-> 0]
    /\ closes = [p \in Callers |-> 0]
    /\ FunIdle

TheWhen == [local |-> "2024-05-01T10:00:00", sign |-> "+", hh |-> "02", mm |-> "00"]

ConcBodies ==
    {Body(Malformed, FALSE),
     Body(JArr(<<WireStop>>), FALSE),
     Body(JObj([arrivals |-> JArr(<<WireArrival>>)]), FALSE)}

NextConc ==
    \E p \in Callers :
        \/ Locations(p, "S+U Alexanderplatz", LocationTypeAny, 5)
        \/ StopsNearby(p, Fin(52), Fin(13), 500, 3)
        \/ \E transportTypes \in {Subway, AllTransport} :
              Departures(p, "900000100003", TheWhen, 90, transportTypes)
        \/ Arrivals(p, "900000100003", TheWhen, 90, UrbanTransport)
        \/ DoFails(p)
        \/ \E body \in ConcBodies : DoResponds(p, 200, body)

SpecConc == InitConc /\ [][NextConc]_vars

\* a step leaves alone every caller it is not a step of
OthersUntouched ==
    \A p \in Callers :
        pc'[p] = pc[p] =>
            /\ call'[p] = call[p]
            /\ req'[p] = req[p]
            /\ resp'[p] = resp[p]
            /\ ret'[p] = ret[p]

\* equal calls send equal requests, and equal responses to the same
\* operation give equal returns, whatever the other callers did meanwhile
CallsIndependent ==
    \A p, r \in Callers :
        /\ (req[p].sent /\ req[r].sent /\ call[p] = call[r]) => req[p] = req[r]
        /\ (Answered(p) /\ Answered(r) /\ call[p].op = call[r].op /\ resp[p] = resp[r])
              => ret[p] = ret[r]

\* C9: under any interleaving of concurrent calls on one Client, no call
\* writes the Client's endpoint or transport (they stay as New set them),
\* and each call's request and result depend on its own arguments and the
\* response to its own request only.
SafeForConcurrentUse ==
    [][client' = client /\ OthersUntouched]_vars /\ [](CallsIndependent)

ConcurrentWitness ==
    \E p, r \in Callers :
        /\ p # r
        /\ pc[p] = "waiting"
        /\ Answered(r)
        /\ call[p] # call[r]
        /\ client = New(BaseURL(gen), "nil")

(***************************************************************************)
(* Specification of the mode parameters, over every filter a caller can    *)
(* compose from the seven mode constants                                   *)
(***************************************************************************)
CallsIdle ==
    /\ client = New(BaseURL(gen), "nil")
    /\ pc = [p \in Callers |-> "idle"]
    /\ call = [p \in Callers |-> NoCall]
    /\ req = [p \in Callers |-> NoRequest]
    /\ resp = [p \in Callers |-> NoResponse]
    /\ ret = [p \in Callers |-> NoReturn]
    /\ doCalls = [p \in Callers |-> 0]
    /\ closes = [p \in Callers |-> 0]

\* the filter value of a set of modes: the constants of the modes, OR-ed
RECURSIVE OrAll(_)
OrAll(modes) ==
    IF modes = {} THEN 0
    ELSE LET k == CHOOSE x \in modes : TRUE
         IN  BitOr(ModeOf[k], OrAll(modes \ {k}))

\* fin: the modes the caller included in the filter
InitParams ==
    /\ gen \in {"A", "B"}
    /\ CallsIdle
    /\ fpc = "in"
    /\ fin \in SUBSET ModeKeys
    /\ fout = [unused |-> TRUE]

\* generation A: the mode parameters among those Departures and Arrivals set
ParamsA ==
    /\ gen = "A"
    /\ fpc = "in"
    /\ fpc' = "out"
    /\ LET q == BuildQueryA(TheWhen, 90, OrAll(fin))
       IN  fout' = [k \in DOMAIN q \ {"when", "duration", "pretty"} |-> q[k]]
    /\ UNCHANGED <<callVars, fin>>

\* generation B: addTransportTypeParams on the empty url.Values
ParamsB ==
    /\ gen = "B"
    /\ fpc = "in"
    /\ fpc' = "out"
    /\ fout' = addTransportTypeParams(EmptyValues, OrAll(fin))
    /\ UNCHANGED <<callVars, fin>>

NextParams == ParamsA \/ ParamsB

SpecParams == InitParams /\ [][NextParams]_vars

\* C1: for every filter value (each mode constant, every OR-combination,
\* UrbanTransport, AllTransport) the mode parameters produced are exactly
\* the seven keys, each "true" if and only if its mode was included in the
\* filter: a single mode yields only its own key true, UrbanTransport
\* yields express=false and the other six true.
ModeParamsReflectTheFilter ==
    fpc = "out" =>
        /\ DOMAIN fout = ModeKeys
        /\ \A k \in ModeKeys : fout[k] = FormatBool(k \in fin)

(***************************************************************************)
(* Specification of Location's JSON round trip                             *)
(***************************************************************************)
LocationsToEncode ==
    [Type : {"stop", "address", "poi"},
     ID : {"900000100003", ""},
     Name : {"S+U Alexanderplatz", "Ostkreuz\\xFF"},
     Address : {"", "Alexanderstr. 1"},
     Latitude : {Fin(0), Fin(52), NaN},
     Longitude : {Fin(13), Fin(-13), PosInf},
     Distance : {0, 120}]

InitLoc ==
    /\ gen = "B"
    /\ CallsIdle
    /\ fpc = "in"
    /\ fin \in LocationsToEncode
    /\ fout = [unused |-> TRUE]

\* loc.MarshalJSON()
Marshal ==
    /\ fpc = "in"
    /\ LET enc == MarshalJSON(fin)
       IN  /\ fout' = [enc |-> enc]
           /\ fpc' = IF enc.err = "none" THEN "encoded" ELSE "failed"
    /\ UNCHANGED <<callVars, fin>>

\* loc.UnmarshalJSON(data) on what MarshalJSON returned
Unmarshal ==
    /\ fpc = "encoded"
    /\ fout' = [enc |-> fout.enc, dec |-> UnmarshalJSON(fout.enc.val)]
    /\ fpc' = "decoded"
    /\ UNCHANGED <<callVars, fin>>

NextLoc == Marshal \/ Unmarshal

SpecLoc == InitLoc /\ [][NextLoc]_vars

\* the encoded form carries the coordinate sub-object, tagged "location",
\* with the Location's own latitude and longitude
NestedCoordinatesPresent ==
    LET c == Member(fout.enc.val, "location")
    IN  /\ c.t = "obj"
        /\ Member(c, "type") = JStr("location")
        /\ DecFloat(Member(c, "latitude")).val = fin.Latitude
        /\ DecFloat(Member(c, "longitude")).val = fin.Longitude

\* the decoded Location equals the original in kind, id, name and coordinates
RoundTripEqual ==
    /\ fout.dec.err = "none"
    /\ fout.dec.val.Type = fin.Type
    /\ fout.dec.val.ID = fin.ID
    /\ fout.dec.val.Name = fin.Name
    /\ FloatEq(fout.dec.val.Latitude, fin.Latitude)
    /\ FloatEq(fout.dec.val.Longitude, fin.Longitude)

\* C5 as stated: for every Location of kind "stop", with any id, name and
\* coordinates, MarshalJSON followed by UnmarshalJSON yields a Location
\* equal in kind, id, name, latitude and longitude, and the encoded form
\* contains the coordinate sub-object with the original coordinates.
StopRoundTripsForAnyFields ==
    fin.Type = "stop" =>
        /\ fpc # "failed"
        /\ fpc \in {"encoded", "decoded"} => NestedCoordinatesPresent
        /\ fpc = "decoded" => RoundTripEqual

\* what JSON can carry: valid UTF-8 in the strings, finite coordinates
Encodable(loc) ==
    /\ loc.ID \notin DOMAIN InvalidUTF8
    /\ loc.Name \notin DOMAIN InvalidUTF8
    /\ loc.Latitude.fl = "finite"
    /\ loc.Longitude.fl = "finite"

\* C5, amended: for every Location of kind "stop" whose id and name are
\* valid UTF-8 and whose coordinates are finite, MarshalJSON succeeds, and
\* followed by UnmarshalJSON yields a Location equal in kind, id, name,
\* latitude and longitude; the encoded form contains the coordinate
\* sub-object with the original coordinates.
StopRoundTrips ==
    (fin.Type = "stop" /\ Encodable(fin)) =>
        /\ fpc # "failed"
        /\ fpc \in {"encoded", "decoded"} => NestedCoordinatesPresent
        /\ fpc = "decoded" => RoundTripEqual

StopRoundTripWitness ==
    /\ fpc = "decoded"
    /\ fin.Type = "stop"
    /\ Encodable(fin)
    /\ fin.Latitude = Fin(52)
    /\ fin.Distance = 120
    /\ RoundTripEqual
    /\ NestedCoordinatesPresent

====
